---- MODULE Spec2Model ----
(***************************************************************************)
(* Model of rgb_splitting_lambda.py: an S3 "object created" notification   *)
(* is handled by lambda_handler, which runs process_record on each record: *)
(* fetch the object, decode it to RGB, split it into three single-channel  *)
(* images with create_channel_images, JPEG-encode each and put it under    *)
(* "<color>/<key>" in DESTINATION_BUCKET.                                   *)
(*                                                                         *)
(* A Python str is the sequence of its code points: 'a+b' is              *)
(* <<97, 43, 98>>, written Str("a+b"); Len, SubSeq and \o act on it as on  *)
(* the str.  Names that are not data of the program (bucket names, class   *)
(* names, error codes, dict keys) are strings of this language.  Python    *)
(* dicts are functions whose DOMAIN is the set of keys.  Channel k of the  *)
(* code (0, 1, 2) is index k + 1 of a pixel.                               *)
(***************************************************************************)
EXTENDS Integers, Sequences, FiniteSets, TLC

\* ---------------------------------------------------------------- bounds
MaxRecords == 2
MaxInvocations == 2
MaxObjectKeys == 4
MaxPixels == 4

\* ------------------------------------------------------- string helpers
\* chr(32) .. chr(95) and chr(97) .. chr(126), in order.  (The backquote,
\* chr(96), cannot be written in a string of this language.)
AsciiLow == " !\"#$%&'()*+,-./0123456789:;<=>?@ABCDEFGHIJKLMNOPQRSTUVWXYZ[\\]^_"
AsciiHigh == "abcdefghijklmnopqrstuvwxyz{|}~"

\* ord(c) of each character that can be written in this language
OrdTable ==
    [c \in {SubSeq(AsciiLow, i, i) : i \in 1..Len(AsciiLow)}
              \cup {SubSeq(AsciiHigh, i, i) : i \in 1..Len(AsciiHigh)} |->
        IF \E i \in 1..Len(AsciiLow) : SubSeq(AsciiLow, i, i) = c
        THEN 31 + (CHOOSE i \in 1..Len(AsciiLow) : SubSeq(AsciiLow, i, i) = c)
        ELSE 96 + (CHOOSE i \in 1..Len(AsciiHigh) : SubSeq(AsciiHigh, i, i) = c)]
Ord(c) == OrdTable[c]

\* The str whose literal is s
Str(s) == [i \in 1..Len(s) |-> Ord(SubSeq(s, i, i))]

\* sub in s (Python's "in" on str)
Contains(s, sub) ==
    \E i \in 1..(Len(s) - Len(sub) + 1) : SubSeq(s, i, i + Len(sub) - 1) = sub

RECURSIVE Join(_, _)
\* sep.join(strs)
Join(sep, strs) ==
    IF Len(strs) = 0 THEN << >>
    ELSE IF Len(strs) = 1 THEN strs[1]
    ELSE strs[1] \o sep \o Join(sep, Tail(strs))

\* ------------------------------------------------ urllib.parse.unquote_plus
\* 0-9, A-F, a-f
IsHexDigit(c) == c \in (48..57) \cup (65..70) \cup (97..102)
HexVal(c) == IF c <= 57 THEN c - 48 ELSE IF c <= 70 THEN c - 55 ELSE c - 87

RECURSIVE unquote_to_bytes(_)
\* unquote_to_bytes on a run of ASCII characters: every "%" followed by two
\* hex digits (of either case) becomes the byte with that value; any other
\* "%" and every other character is kept as its own byte.
unquote_to_bytes(s) ==
    IF Len(s) = 0 THEN << >>
    ELSE IF /\ s[1] = Ord("%")
            /\ Len(s) >= 3
            /\ IsHexDigit(s[2])
            /\ IsHexDigit(s[3])
         THEN <<16 * HexVal(s[2]) + HexVal(s[3])>>
                  \o unquote_to_bytes(SubSeq(s, 4, Len(s)))
         ELSE <<s[1]>> \o unquote_to_bytes(SubSeq(s, 2, Len(s)))

\* U+FFFD, what errors="replace" puts for bytes that are not UTF-8
REPLACEMENT_CHARACTER == 65533

\* For the first byte of a multi-byte UTF-8 sequence: the number of bytes
\* that follow it and the lowest and highest value allowed for the second
\* byte (overlong forms, surrogates and code points above U+10FFFF are not
\* UTF-8).  <<0, 0, 0>> for a byte that cannot start a sequence.
Utf8Lead(b) ==
    IF b >= 194 /\ b <= 223 THEN <<1, 128, 191>>
    ELSE IF b = 224 THEN <<2, 160, 191>>
    ELSE IF b = 237 THEN <<2, 128, 159>>
    ELSE IF b >= 225 /\ b <= 239 THEN <<2, 128, 191>>
    ELSE IF b = 240 THEN <<3, 144, 191>>
    ELSE IF b >= 241 /\ b <= 243 THEN <<3, 128, 191>>
    ELSE IF b = 244 THEN <<3, 128, 143>>
    ELSE <<0, 0, 0>>

\* How many of the bytes after bs[1] continue the sequence it starts.
Utf8Accepted(bs) ==
    LET lead == Utf8Lead(bs[1])
        ok(i) ==
            /\ i <= lead[1]
            /\ i + 1 <= Len(bs)
            /\ bs[i + 1] >= (IF i = 1 THEN lead[2] ELSE 128)
            /\ bs[i + 1] <= (IF i = 1 THEN lead[3] ELSE 191)
    IN IF ~ok(1) THEN 0 ELSE IF ~ok(2) THEN 1 ELSE IF ~ok(3) THEN 2 ELSE 3

RECURSIVE utf8_decode(_)
\* bytes.decode("utf-8", "replace"): a complete sequence becomes its code
\* point; a byte that starts no sequence, and a sequence that is cut short
\* (with the bytes of it that were accepted), becomes one U+FFFD.
utf8_decode(bs) ==
    IF Len(bs) = 0 THEN << >>
    ELSE IF bs[1] < 128 THEN <<bs[1]>> \o utf8_decode(SubSeq(bs, 2, Len(bs)))
    ELSE LET n == Utf8Lead(bs[1])[1]
             k == Utf8Accepted(bs)
             code_point ==
                 CASE n = 1 -> (bs[1] - 192) * 64 + (bs[2] - 128)
                   [] n = 2 -> (bs[1] - 224) * 4096 + (bs[2] - 128) * 64 + (bs[3] - 128)
                   [] n = 3 -> (bs[1] - 240) * 262144 + (bs[2] - 128) * 4096
                                   + (bs[3] - 128) * 64 + (bs[4] - 128)
         IN IF n >= 1 /\ k = n
            THEN <<code_point>> \o utf8_decode(SubSeq(bs, n + 2, Len(bs)))
            ELSE <<REPLACEMENT_CHARACTER>> \o utf8_decode(SubSeq(bs, k + 2, Len(bs)))

\* The length of the longest prefix of s made of ASCII characters.
AsciiRunLen(s) ==
    IF \A i \in 1..Len(s) : s[i] < 128 THEN Len(s)
    ELSE (CHOOSE i \in 1..Len(s) : s[i] >= 128 /\ \A j \in 1..(i - 1) : s[j] < 128) - 1

RECURSIVE unquote(_)
\* urllib.parse.unquote(string, encoding="utf-8", errors="replace"): each
\* run of ASCII characters is turned into bytes by unquote_to_bytes and the
\* bytes of the whole run are decoded together as UTF-8; characters that
\* are not ASCII are kept.
unquote(s) ==
    IF Len(s) = 0 THEN << >>
    ELSE IF s[1] >= 128 THEN <<s[1]>> \o unquote(SubSeq(s, 2, Len(s)))
    ELSE LET n == AsciiRunLen(s)
         IN utf8_decode(unquote_to_bytes(SubSeq(s, 1, n)))
                \o unquote(SubSeq(s, n + 1, Len(s)))

\* string.replace("+", " ")
PlusToSpace(s) == [i \in 1..Len(s) |-> IF s[i] = Ord("+") THEN Ord(" ") ELSE s[i]]

\* urllib.parse.unquote_plus: "+" to " " first, then the %XX escapes (so
\* that "%2B" decodes to "+", not to " ").
unquote_plus(s) == unquote(PlusToSpace(s))

\* ------------------------------------------------------------- rasters
\* A raster is data[row][column][channel + 1]; an image value is
\* [mode, size, data] with size = <<width, height>> as PIL reports it.
\* Image.convert("RGB") on one pixel: grayscale is replicated to R = G = B,
\* RGB is kept, RGBA drops its alpha sample.
PixelToRGB(mode, px) ==
    CASE mode = "L" -> <<px[1], px[1], px[1]>>
      [] mode = "RGB" -> px
      [] mode = "RGBA" -> <<px[1], px[2], px[3]>>

ConvertRGB(img) ==
    [mode |-> "RGB", size |-> img.size,
     data |-> [r \in 1..Len(img.data) |->
                 [c \in 1..Len(img.data[r]) |-> PixelToRGB(img.mode, img.data[r][c])]]]

ImageFormats == {"PNG", "JPEG"}
ImageModes == {"L", "RGB", "RGBA"}

\* A source object is its format and the mode, size and raster the decoder
\* gives for it.
\* What Image.open(BytesIO(body)) accepts.
Decodable(body) == body.format \in ImageFormats /\ body.mode \in ImageModes

\* Image.open(BytesIO(body)).convert("RGB")
DecodeRGB(body) ==
    ConvertRGB([mode |-> body.mode, size |-> body.size, data |-> body.data])

\* image.save(buffer, format="JPEG"); buffer.getvalue().  The encoder is
\* deterministic, so the bytes are a function of the image; the encoding is
\* lossy (a stored sample depends on the other channels and on the pixels
\* around it) and is not computed here: the bytes are named by the image
\* they encode.  An object written by the program is not read back in the
\* modelled runs.
SaveJPEG(img) == [format |-> "JPEG", encoded |-> img]

\* ------------------------------------------- create_channel_images
\* The function is modelled statement by statement on a heap of pixel
\* buffers, so that copying and aliasing are visible.  A frame holds the
\* heap, the position (line; 0 = returned) and the locals; a local is a
\* buffer id (0 = not yet assigned).
SPLIT_ENTRY == 58
SPLIT_RETURN == 73

ZeroChannel(data, ch) ==
    [r \in 1..Len(data) |->
        [c \in 1..Len(data[r]) |->
            [k \in 1..Len(data[r][c]) |-> IF k = ch + 1 THEN 0 ELSE data[r][c][k]]]]

\* np.asarray-like: the array is a view of the image's own buffer.
np_array_view(heap, buf) == [heap |-> heap, ref |-> buf]

\* np.array(image): a new array holding a copy of the image's pixels.
np_array(heap, buf) == [heap |-> Append(heap, heap[buf]), ref |-> Len(heap) + 1]

\* Image.fromarray(array): a new image with its own copy of the pixels.
Image_fromarray(heap, ref) == [heap |-> Append(heap, heap[ref]), ref |-> Len(heap) + 1]

\* array[:, :, ch] = 0 on the buffer the array refers to
AssignChannelZero(heap, ref, ch) == [heap EXCEPT ![ref] = ZeroChannel(@, ch)]

IdleFrame ==
    [line |-> 0, heap |-> << >>, original_image |-> 0,
     red_img_array |-> 0, red_img |-> 0,
     green_img_array |-> 0, green_img |-> 0,
     blue_img_array |-> 0, blue_img |-> 0]

\* Entering create_channel_images(original_image): the image's pixels are
\* buffer 1 of the heap.
CallFrame(data) ==
    [IdleFrame EXCEPT !.line = SPLIT_ENTRY, !.heap = <<data>>, !.original_image = 1]

\* One statement of create_channel_images, by line of the source.
ExecLine(f) ==
    CASE f.line = 58 ->
           LET a == np_array(f.heap, f.original_image)
           IN [f EXCEPT !.heap = a.heap, !.red_img_array = a.ref, !.line = 59]
      [] f.line = 59 ->
           [f EXCEPT !.heap = AssignChannelZero(@, f.red_img_array, 1), !.line = 60]
      [] f.line = 60 ->
           [f EXCEPT !.heap = AssignChannelZero(@, f.red_img_array, 2), !.line = 61]
      [] f.line = 61 ->
           LET i == Image_fromarray(f.heap, f.red_img_array)
           IN [f EXCEPT !.heap = i.heap, !.red_img = i.ref, !.line = 63]
      [] f.line = 63 ->
           LET a == np_array(f.heap, f.original_image)
           IN [f EXCEPT !.heap = a.heap, !.green_img_array = a.ref, !.line = 64]
      [] f.line = 64 ->
           [f EXCEPT !.heap = AssignChannelZero(@, f.green_img_array, 0), !.line = 65]
      [] f.line = 65 ->
           [f EXCEPT !.heap = AssignChannelZero(@, f.green_img_array, 2), !.line = 66]
      [] f.line = 66 ->
           LET i == Image_fromarray(f.heap, f.green_img_array)
           IN [f EXCEPT !.heap = i.heap, !.green_img = i.ref, !.line = 68]
      [] f.line = 68 ->
           LET a == np_array(f.heap, f.original_image)
           IN [f EXCEPT !.heap = a.heap, !.blue_img_array = a.ref, !.line = 69]
      [] f.line = 69 ->
           [f EXCEPT !.heap = AssignChannelZero(@, f.blue_img_array, 0), !.line = 70]
      [] f.line = 70 ->
           [f EXCEPT !.heap = AssignChannelZero(@, f.blue_img_array, 1), !.line = 71]
      [] f.line = 71 ->
           LET i == Image_fromarray(f.heap, f.blue_img_array)
           IN [f EXCEPT !.heap = i.heap, !.blue_img = i.ref, !.line = 73]
      [] f.line = 73 -> [f EXCEPT !.line = 0]

RECURSIVE RunFrame(_)
RunFrame(f) == IF f.line = 0 THEN f ELSE RunFrame(ExecLine(f))

\* create_channel_images(original_image) as a value: the three returned
\* images, read off the heap when the function returns.
create_channel_images(original_image) ==
    LET f == RunFrame(CallFrame(original_image.data))
        img(ref) == [mode |-> "RGB", size |-> original_image.size, data |-> f.heap[ref]]
    IN <<img(f.red_img), img(f.green_img), img(f.blue_img)>>

\* ------------------------------------------------------------ storage
\* os.environ["DESTINATION_BUCKET"], read once when the module is loaded.
DESTINATION_BUCKET == "dst-bucket"
SOURCE_BUCKET == "src-bucket"
Buckets == {SOURCE_BUCKET, DESTINATION_BUCKET}

\* A bucket is a dict from key to object body.

\* A store that keeps an existing object and writes the new body beside it.
PutObject_keep(st, bucket, key, body) ==
    LET k == IF key \in DOMAIN st[bucket] THEN key \o Str(".1") ELSE key
    IN [st EXCEPT ![bucket] =
           [x \in DOMAIN st[bucket] \cup {k} |-> IF x = k THEN body ELSE st[bucket][x]]]

\* S3_CLIENT.put_object(Bucket, Key, Body): the object at Key is created or
\* overwritten; every other object is left alone.
PutObject(st, bucket, key, body) ==
    [st EXCEPT ![bucket] =
        [x \in DOMAIN st[bucket] \cup {key} |-> IF x = key THEN body ELSE st[bucket][x]]]

\* The sample objects of the source bucket.
RGBPng ==
    [format |-> "PNG", mode |-> "RGB", size |-> <<2, 1>>,
     data |-> << << <<178, 214, 66>>, <<145, 0, 89>> >> >>]
RGBAPng ==
    [format |-> "PNG", mode |-> "RGBA", size |-> <<1, 1>>,
     data |-> << << <<12, 250, 131, 128>> >> >>]
NotAnImage == [format |-> "text", mode |-> "", size |-> <<0, 0>>, data |-> << >>]
\* An output left in the destination bucket by the processing of an older
\* version of the source object "a b".
StaleRedJpeg ==
    SaveJPEG([mode |-> "RGB", size |-> <<1, 1>>, data |-> << << <<77, 0, 0>> >> >>])

InitialStorage ==
    [b \in Buckets |->
        IF b = SOURCE_BUCKET
        THEN [k \in {Str("a b"), Str("x+y")} |->
                 CASE k = Str("a b") -> RGBPng
                   [] k = Str("x+y") -> NotAnImage]
        ELSE [k \in {Str("p q"), Str("red/a b")} |->
                 CASE k = Str("p q") -> RGBAPng
                   [] k = Str("red/a b") -> StaleRedJpeg]]

\* --------------------------------------------------------- exceptions
\* An exception is its class, the error code of a storage error and its
\* message, str(e).
NoExc == [cls |-> "", code |-> "", msg |-> << >>]

\* The class a class is derived from: Python's built-in exceptions, PIL's
\* UnidentifiedImageError and DecompressionBombError, botocore's ClientError,
\* BotoCoreError and two of its subclasses.
Base(cls) ==
    CASE cls = "BaseException" -> "object"
      [] cls \in {"Exception", "GeneratorExit", "KeyboardInterrupt", "SystemExit",
                  "BaseExceptionGroup"} -> "BaseException"
      [] cls \in {"ArithmeticError", "AssertionError", "AttributeError", "BufferError",
                  "EOFError", "ImportError", "LookupError", "MemoryError", "NameError",
                  "OSError", "ReferenceError", "RuntimeError", "StopAsyncIteration",
                  "StopIteration", "SyntaxError", "SystemError", "TypeError",
                  "ValueError", "Warning",
                  "ClientError", "BotoCoreError", "DecompressionBombError"} -> "Exception"
      [] cls \in {"FloatingPointError", "OverflowError", "ZeroDivisionError"} ->
           "ArithmeticError"
      [] cls = "ModuleNotFoundError" -> "ImportError"
      [] cls \in {"IndexError", "KeyError"} -> "LookupError"
      [] cls = "UnboundLocalError" -> "NameError"
      [] cls \in {"BlockingIOError", "ChildProcessError", "ConnectionError",
                  "FileExistsError", "FileNotFoundError", "InterruptedError",
                  "IsADirectoryError", "NotADirectoryError", "PermissionError",
                  "ProcessLookupError", "TimeoutError",
                  "UnidentifiedImageError"} -> "OSError"
      [] cls \in {"BrokenPipeError", "ConnectionAbortedError", "ConnectionRefusedError",
                  "ConnectionResetError"} -> "ConnectionError"
      [] cls \in {"NotImplementedError", "RecursionError"} -> "RuntimeError"
      [] cls = "IndentationError" -> "SyntaxError"
      [] cls = "TabError" -> "IndentationError"
      [] cls = "UnicodeError" -> "ValueError"
      [] cls \in {"UnicodeDecodeError", "UnicodeEncodeError", "UnicodeTranslateError"} ->
           "UnicodeError"
      [] cls \in {"BytesWarning", "DeprecationWarning", "EncodingWarning", "FutureWarning",
                  "ImportWarning", "PendingDeprecationWarning", "ResourceWarning",
                  "RuntimeWarning", "SyntaxWarning", "UnicodeWarning", "UserWarning"} ->
           "Warning"
      [] cls \in {"ParamValidationError", "NoCredentialsError"} -> "BotoCoreError"

RECURSIVE Mro(_)
\* The names of cls.__mro__, cls first and object last.
Mro(cls) == IF cls = "object" THEN <<"object">> ELSE <<cls>> \o Mro(Base(cls))

\* isinstance(e, <class named name>)
IsInstance(e, name) == \E i \in 1..Len(Mro(e.cls)) : Mro(e.cls)[i] = name

\* str(KeyError(k)) is repr(k)
KeyError(k) == [cls |-> "KeyError", code |-> "", msg |-> Str("'") \o Str(k) \o Str("'")]

\* None["Records"]
NotSubscriptable ==
    [cls |-> "TypeError", code |-> "",
     msg |-> Str("'NoneType' object is not subscriptable")]

\* botocore's ClientError message
ClientError(code, operation, text) ==
    [cls |-> "ClientError", code |-> code,
     msg |-> Str("An error occurred (") \o Str(code) \o Str(") when calling the ")
                 \o Str(operation) \o Str(" operation: ") \o Str(text)]

NoSuchKey == ClientError("NoSuchKey", "GetObject", "The specified key does not exist.")
ServiceUnavailable(operation) ==
    ClientError("ServiceUnavailable", operation, "Please reduce your request rate.")
\* Where the BytesIO of line 111 may be allocated: repr() of the object
\* shows its address, which differs from run to run.  Two of the possible
\* addresses.
BytesIOAddresses == {Str("0x7f3a5c1d2e90"), Str("0x7f3a5c0b84f0")}

\* PIL's "cannot identify image file %r" % fp
UnidentifiedImageError(address) ==
    [cls |-> "UnidentifiedImageError", code |-> "",
     msg |-> Str("cannot identify image file <_io.BytesIO object at ")
                 \o address \o Str(">")]

\* np.array or image.save cannot allocate; str(MemoryError()) is empty
MemoryError == [cls |-> "MemoryError", code |-> "", msg |-> << >>]

\* A handler that only expects storage errors.
Caught_client_only(e) == IsInstance(e, "ClientError")

\* "except Exception as e" catches e
Caught(e) == IsInstance(e, "Exception")

\* -------------------------------------------------------------- events
S3Record(bucket, key) ==
    [s3 |-> [bucket |-> [name |-> bucket], object |-> [key |-> key]]]

\* The key whose lookup fails in lines 103-105 of process_record, or ""
\* when the record has every field the code reads.
MissingField(record) ==
    IF "s3" \notin DOMAIN record THEN "s3"
    ELSE IF "bucket" \notin DOMAIN record.s3 THEN "bucket"
    ELSE IF "name" \notin DOMAIN record.s3.bucket THEN "name"
    ELSE IF "object" \notin DOMAIN record.s3 THEN "object"
    ELSE IF "key" \notin DOMAIN record.s3.object THEN "key"
    ELSE ""

RecordInputs ==
    { S3Record(SOURCE_BUCKET, Str("a+b")),
      S3Record(SOURCE_BUCKET, Str("x%2By")),
      S3Record(SOURCE_BUCKET, Str("caf%C3%A9")),
      S3Record(DESTINATION_BUCKET, Str("p+q")),
      [s3 |-> [bucket |-> [name |-> SOURCE_BUCKET], object |-> [size |-> 1]]] }

SeqsUpTo(S, n) == UNION {[1..m -> S] : m \in 0..n}

\* Python's None as an event
None == [NoneType |-> TRUE]

EventInputs ==
    {[Records |-> rs] : rs \in SeqsUpTo(RecordInputs, MaxRecords)}
        \cup {[detail |-> "not a storage notification"], None}

\* Before the first invocation there is no event.
NoEvent == [idle |-> TRUE]
NoResponse == [statusCode |-> 0, body |-> << >>]
NoImage == [mode |-> "", size |-> <<0, 0>>, data |-> << >>]
NoFail == [rec |-> 0, step |-> "", error |-> NoExc]
NoRun == [event |-> NoEvent, before |-> InitialStorage, after |-> InitialStorage,
          response |-> NoResponse, fail |-> NoFail, oplog |-> << >>]

Colors == <<Str("red"), Str("green"), Str("blue")>>

\* A destination key without the color prefix.
destination_key_flat(color, object_key) == object_key

\* f"{color}/{object_key}"
destination_key(color, object_key) == color \o Str("/") \o object_key

\* --------------------------------------------------------------- state
VARIABLES
    storage,         \* the S3 buckets: bucket -> key -> body
    object_keys,     \* the module-level list object_keys
    pc,              \* position of the running invocation ("idle" between two)
    event,           \* lambda_handler's argument
    idx,             \* position of the for loop in event["Records"]
    source_bucket,   \* process_record's locals
    object_key,
    body,            \* s3_response["Body"].read()
    original_image,
    channel_images,  \* <<red_img, green_img, blue_img>>
    color_i,         \* position of the for loop over the three colors
    exc,             \* the exception in flight
    response,        \* what lambda_handler returned
    invocations,     \* invocations started in this process
    oplog,           \* history: the S3 calls of the running invocation
    fail,            \* history: where and as what the exception was raised
    before,          \* history: the storage when the invocation started
    prev,            \* history: the previous invocation
    frame,           \* create_channel_images run statement by statement
    split_input      \* history: the raster create_channel_images was given

locals == <<source_bucket, object_key, body, original_image, channel_images, color_i>>
history == <<oplog, fail, before, prev>>
split_vars == <<frame, split_input>>
handler_vars ==
    <<storage, object_keys, pc, event, idx, locals, exc, response, invocations, history>>
vars == <<handler_vars, split_vars>>

NoLocals ==
    /\ source_bucket' = ""
    /\ object_key' = << >>
    /\ body' = NotAnImage
    /\ original_image' = NoImage
    /\ channel_images' = << >>
    /\ color_i' = 0

HandlerInit ==
    /\ storage = InitialStorage
    /\ object_keys = << >>
    /\ pc = "idle"
    /\ event = NoEvent
    /\ idx = 0
    /\ source_bucket = ""
    /\ object_key = << >>
    /\ body = NotAnImage
    /\ original_image = NoImage
    /\ channel_images = << >>
    /\ color_i = 0
    /\ exc = NoExc
    /\ response = NoResponse
    /\ invocations = 0
    /\ oplog = << >>
    /\ fail = NoFail
    /\ before = InitialStorage
    /\ prev = NoRun

Init ==
    /\ HandlerInit
    /\ frame = IdleFrame
    /\ split_input = << >>

NRecords(ev) == IF "Records" \in DOMAIN ev THEN Len(ev.Records) ELSE 0
ThisRun == [event |-> event, before |-> before, after |-> storage,
            response |-> response, fail |-> fail, oplog |-> oplog]

\* lambda_handler(ev, context) is entered.
Enter(ev) ==
    /\ event' = ev
    /\ invocations' = invocations + 1
    /\ pc' = "L131"
    /\ idx' = 0
    /\ exc' = NoExc
    /\ response' = NoResponse
    /\ oplog' = << >>
    /\ fail' = NoFail
    /\ before' = storage
    /\ UNCHANGED <<storage, object_keys, locals, split_vars>>

\* The platform calls lambda_handler(event, context) with any event.  The
\* list object_keys grows with every record of every invocation of the
\* process; MaxObjectKeys caps it (MaxRecords * MaxInvocations entries, so
\* that every sequence of MaxInvocations events is taken).
Invoke ==
    /\ pc = "idle"
    /\ invocations < MaxInvocations
    /\ \E ev \in EventInputs :
          /\ Len(object_keys) + NRecords(ev) <= MaxObjectKeys
          /\ Enter(ev)
    /\ prev' = prev

\* The platform delivers the event of the last invocation again (an S3
\* notification is delivered at least once; a failed invocation is retried).
Redeliver ==
    /\ pc = "idle"
    /\ invocations >= 1
    /\ invocations < MaxInvocations
    /\ Enter(event)
    /\ prev' = ThisRun

\* line 131: for record in event["Records"].  The subscript raises
\* TypeError when the event is None and KeyError when it has no "Records".
ForRecords ==
    /\ pc = "L131"
    /\ IF event = None \/ "Records" \notin DOMAIN event
       THEN LET error == IF event = None THEN NotSubscriptable ELSE KeyError("Records")
            IN /\ exc' = error
               /\ fail' = [rec |-> 0, step |-> "event", error |-> error]
               /\ pc' = "L140"
               /\ idx' = idx
       ELSE /\ UNCHANGED <<exc, fail>>
            /\ IF idx < Len(event.Records)
               THEN idx' = idx + 1 /\ pc' = "L103"
               ELSE idx' = idx /\ pc' = "L134"
    /\ UNCHANGED <<storage, object_keys, event, locals, response, invocations,
                   oplog, before, prev, split_vars>>

\* The key is decoded for the fetch, but the key as it arrived is listed.
ParseRecord_lists_raw ==
    /\ pc = "L103"
    /\ LET record == event.Records[idx]
           missing == MissingField(record)
       IN IF missing # ""
          THEN /\ exc' = KeyError(missing)
               /\ fail' = [rec |-> idx, step |-> "record", error |-> KeyError(missing)]
               /\ pc' = "L140"
               /\ UNCHANGED <<object_keys, locals>>
          ELSE /\ source_bucket' = record.s3.bucket.name
               /\ object_key' = unquote_plus(record.s3.object.key)
               /\ object_keys' = Append(object_keys, record.s3.object.key)
               /\ pc' = "L110"
               /\ UNCHANGED <<body, original_image, channel_images, color_i, exc, fail>>
    /\ UNCHANGED <<storage, event, idx, response, invocations, oplog, before, prev,
                   split_vars>>

\* lines 103-107: the record's fields are read (a missing one raises
\* KeyError outside the try block) and the decoded key is appended to
\* object_keys.
ParseRecord ==
    /\ pc = "L103"
    /\ LET record == event.Records[idx]
           missing == MissingField(record)
       IN IF missing # ""
          THEN /\ exc' = KeyError(missing)
               /\ fail' = [rec |-> idx, step |-> "record", error |-> KeyError(missing)]
               /\ pc' = "L140"
               /\ UNCHANGED <<object_keys, locals>>
          ELSE /\ source_bucket' = record.s3.bucket.name
               /\ object_key' = unquote_plus(record.s3.object.key)
               /\ object_keys' = Append(object_keys, unquote_plus(record.s3.object.key))
               /\ pc' = "L110"
               /\ UNCHANGED <<body, original_image, channel_images, color_i, exc, fail>>
    /\ UNCHANGED <<storage, event, idx, response, invocations, oplog, before, prev,
                   split_vars>>

GetEntry(ok, b) ==
    [rec |-> idx, op |-> "get_object", bucket |-> source_bucket, key |-> object_key,
     body |-> b, ok |-> ok]

\* line 110: S3_CLIENT.get_object(Bucket=source_bucket, Key=object_key).
\* The service may fail any call; a missing key fails with NoSuchKey.
GetObject ==
    /\ pc = "L110"
    /\ \E outage \in BOOLEAN :
          LET present == object_key \in DOMAIN storage[source_bucket]
              error == IF outage THEN ServiceUnavailable("GetObject") ELSE NoSuchKey
          IN IF ~outage /\ present
             THEN /\ body' = storage[source_bucket][object_key]
                  /\ oplog' = Append(oplog, GetEntry(TRUE, storage[source_bucket][object_key]))
                  /\ pc' = "L111"
                  /\ UNCHANGED <<exc, fail>>
             ELSE /\ exc' = error
                  /\ fail' = [rec |-> idx, step |-> "get_object", error |-> error]
                  /\ oplog' = Append(oplog, GetEntry(FALSE, NotAnImage))
                  /\ pc' = "L122"
                  /\ body' = body
    /\ UNCHANGED <<storage, object_keys, event, idx, source_bucket, object_key,
                   original_image, channel_images, color_i, response, invocations,
                   before, prev, split_vars>>

\* lines 111-113: Image.open(BytesIO(...)).convert("RGB")
OpenImage ==
    /\ pc = "L111"
    /\ IF Decodable(body)
       THEN /\ original_image' = DecodeRGB(body)
            /\ pc' = "L115"
            /\ UNCHANGED <<exc, fail>>
       ELSE \E address \in BytesIOAddresses :
               /\ exc' = UnidentifiedImageError(address)
               /\ fail' = [rec |-> idx, step |-> "open",
                           error |-> UnidentifiedImageError(address)]
               /\ pc' = "L122"
               /\ original_image' = original_image
    /\ UNCHANGED <<storage, object_keys, event, idx, source_bucket, object_key, body,
                   channel_images, color_i, response, invocations, oplog, before, prev,
                   split_vars>>

\* lines 115-116: red_img, green_img, blue_img = create_channel_images(...).
\* The three array copies may fail for want of memory.
SplitChannels ==
    /\ pc = "L115"
    /\ \E no_memory \in BOOLEAN :
          IF ~no_memory
          THEN /\ channel_images' = create_channel_images(original_image)
               /\ color_i' = 1
               /\ pc' = "L118"
               /\ UNCHANGED <<exc, fail>>
          ELSE /\ exc' = MemoryError
               /\ fail' = [rec |-> idx, step |-> "split", error |-> MemoryError]
               /\ pc' = "L122"
               /\ UNCHANGED <<channel_images, color_i>>
    /\ UNCHANGED <<storage, object_keys, event, idx, source_bucket, object_key, body,
                   original_image, response, invocations, oplog, before, prev,
                   split_vars>>

PutEntry(ok, key, b) ==
    [rec |-> idx, op |-> "put_object", bucket |-> DESTINATION_BUCKET, key |-> key,
     body |-> b, ok |-> ok]

\* lines 118-120 with upload_processed_image (84-99): one turn of the loop
\* over the colors.  The image is saved as JPEG and put at the destination
\* key; a failing save (no memory for the buffer) or put is logged and
\* re-raised (lines 97-99).  After the third color process_record returns.
Upload ==
    /\ pc = "L118"
    /\ LET color == Colors[color_i]
           key == destination_key(color, object_key)
           buffer == SaveJPEG(channel_images[color_i])
       IN \E outcome \in {"stored", "outage", "no_memory"} :
             IF outcome = "no_memory"
             THEN /\ exc' = MemoryError
                  /\ fail' = [rec |-> idx, step |-> "encode", error |-> MemoryError]
                  /\ pc' = "L122"
                  /\ UNCHANGED <<storage, locals, oplog>>
             ELSE IF outcome = "stored"
             THEN /\ storage' = PutObject(storage, DESTINATION_BUCKET, key, buffer)
                  /\ oplog' = Append(oplog, PutEntry(TRUE, key, buffer))
                  /\ UNCHANGED <<exc, fail>>
                  /\ IF color_i < Len(Colors)
                     THEN /\ color_i' = color_i + 1
                          /\ pc' = "L118"
                          /\ UNCHANGED <<source_bucket, object_key, body, original_image,
                                         channel_images>>
                     ELSE /\ pc' = "L131"
                          /\ NoLocals
             ELSE /\ exc' = ServiceUnavailable("PutObject")
                  /\ fail' = [rec |-> idx, step |-> "put_object",
                              error |-> ServiceUnavailable("PutObject")]
                  /\ oplog' = Append(oplog, PutEntry(FALSE, key, buffer))
                  /\ pc' = "L122"
                  /\ UNCHANGED <<storage, locals>>
    /\ UNCHANGED <<object_keys, event, idx, response, invocations, before, prev,
                   split_vars>>

\* An except clause that logs the error and goes on with the next record.
ExceptProcessRecord_continue ==
    /\ pc = "L122"
    /\ pc' = "L131"
    /\ exc' = NoExc
    /\ NoLocals
    /\ UNCHANGED <<storage, object_keys, event, idx, response, invocations, history,
                   split_vars>>

\* An except clause that removes what the failing record had uploaded.
ExceptProcessRecord_cleanup ==
    /\ pc = "L122"
    /\ pc' = "L140"
    /\ exc' = exc
    /\ storage' =
          [storage EXCEPT ![DESTINATION_BUCKET] =
              LET gone == {destination_key(Colors[c], object_key) : c \in 1..Len(Colors)}
              IN [k \in DOMAIN @ \ gone |-> @[k]]]
    /\ NoLocals
    /\ UNCHANGED <<object_keys, event, idx, response, invocations, history, split_vars>>

\* lines 122-124: "except Exception as e" of process_record logs the key
\* and the error and re-raises the same exception.
ExceptProcessRecord ==
    /\ pc = "L122"
    /\ pc' = "L140"
    /\ exc' = exc
    /\ NoLocals
    /\ UNCHANGED <<storage, object_keys, event, idx, response, invocations, history,
                   split_vars>>

\* lines 134-139: every record was processed
ReturnOk ==
    /\ pc = "L134"
    /\ response' = [statusCode |-> 200,
                    body |-> Str("Processed the following s3Objects: ")
                                 \o Join(Str(", "), object_keys)]
    /\ pc' = "idle"
    /\ UNCHANGED <<storage, object_keys, event, idx, locals, exc, invocations, history,
                   split_vars>>

\* An except clause that reports success.
ExceptHandler_ok ==
    /\ pc = "L140"
    /\ response' = [statusCode |-> 200,
                    body |-> Str("Error in lambda_handler: ") \o exc.msg]
    /\ pc' = "idle"
    /\ UNCHANGED <<storage, object_keys, event, idx, locals, exc, invocations, history,
                   split_vars>>

\* lines 140-146: "except Exception as e" of lambda_handler
ExceptHandler ==
    /\ pc = "L140"
    /\ IF Caught(exc)
       THEN /\ response' = [statusCode |-> 500,
                            body |-> Str("Error in lambda_handler: ") \o exc.msg]
            /\ pc' = "idle"
       ELSE /\ response' = response
            /\ pc' = "escaped"
    /\ UNCHANGED <<storage, object_keys, event, idx, locals, exc, invocations, history,
                   split_vars>>

Next ==
    \/ Invoke
    \/ ForRecords
    \/ ParseRecord
    \/ GetObject
    \/ OpenImage
    \/ SplitChannels
    \/ Upload
    \/ ExceptProcessRecord
    \/ ReturnOk
    \/ ExceptHandler

Spec == Init /\ [][Next]_vars

\* An event is handled and then delivered again.
RerunNext ==
    \/ (invocations = 0 /\ Invoke)
    \/ Redeliver
    \/ ForRecords
    \/ ParseRecord
    \/ GetObject
    \/ OpenImage
    \/ SplitChannels
    \/ Upload
    \/ ExceptProcessRecord
    \/ ReturnOk
    \/ ExceptHandler

RerunSpec == Init /\ [][RerunNext]_vars

\* ------------------------------------------ create_channel_images alone
\* Every H x W x 3 raster of at most MaxPixels pixels over these samples.
SampleValues == {0, 255}
Shapes == {hw \in (1..MaxPixels) \X (1..MaxPixels) : hw[1] * hw[2] <= MaxPixels}
Rasters ==
    UNION {[1..hw[1] -> [1..hw[2] -> [1..3 -> SampleValues]]] : hw \in Shapes}

SplitInit ==
    /\ HandlerInit
    /\ \E data \in Rasters :
          /\ frame = CallFrame(data)
          /\ split_input = data

\* lines 58, 63, 68: <color>_img_array = np.array(original_image)
CopyArray ==
    /\ frame.line \in {58, 63, 68}
    /\ frame' = ExecLine(frame)
    /\ UNCHANGED <<handler_vars, split_input>>

\* lines 59-60, 64-65, 69-70: <color>_img_array[:, :, ch] = 0
ZeroChannels ==
    /\ frame.line \in {59, 60, 64, 65, 69, 70}
    /\ frame' = ExecLine(frame)
    /\ UNCHANGED <<handler_vars, split_input>>

\* lines 61, 66, 71: <color>_img = Image.fromarray(<color>_img_array)
FromArray ==
    /\ frame.line \in {61, 66, 71}
    /\ frame' = ExecLine(frame)
    /\ UNCHANGED <<handler_vars, split_input>>

\* line 73: return red_img, green_img, blue_img
ReturnImages ==
    /\ frame.line = SPLIT_RETURN
    /\ frame' = ExecLine(frame)
    /\ UNCHANGED <<handler_vars, split_input>>

SplitNext == CopyArray \/ ZeroChannels \/ FromArray \/ ReturnImages

SplitSpec == SplitInit /\ [][SplitNext]_vars

\* =============================================================== claims
\* What the properties observe.
Returned == pc = "idle" /\ response.statusCode # 0
HasRecords == "Records" \in DOMAIN event
WellFormed(i) == MissingField(event.Records[i]) = ""
WellFormedEvent == HasRecords /\ \A i \in 1..Len(event.Records) : WellFormed(i)
OkPrefix == Str("Processed the following s3Objects: ")
Listed(keys) == OkPrefix \o Join(Str(", "), keys)

OpsOf(i) == SelectSeq(oplog, LAMBDA e : e.rec = i)
OkPuts(i) == SelectSeq(oplog, LAMBDA e : e.rec = i /\ e.op = "put_object" /\ e.ok)
OkGets(i) == SelectSeq(oplog, LAMBDA e : e.rec = i /\ e.op = "get_object" /\ e.ok)
\* source fetched and all three channel images stored
RecordSucceeded(i) == Len(OkGets(i)) = 1 /\ Len(OkPuts(i)) = 3

\* The decoded form of each key of RecordInputs, worked out by hand from
\* the rules of percent-encoding ("%C3%A9" is U+00E9 in UTF-8).
Cafe == Str("caf") \o <<233>>
ExpectedKey(raw) ==
    CASE raw = Str("a+b") -> Str("a b")
      [] raw = Str("x%2By") -> Str("x+y")
      [] raw = Str("caf%C3%A9") -> Cafe
      [] raw = Str("p+q") -> Str("p q")
KeyOfRecord(i) == ExpectedKey(event.Records[i].s3.object.key)
BucketOfRecord(i) == event.Records[i].s3.bucket.name

\* The image that keeps channel ch (1, 2, 3) of img and is 0 elsewhere.
ChannelOnly(img, ch) ==
    [mode |-> "RGB", size |-> img.size,
     data |-> [r \in 1..Len(img.data) |-> [c \in 1..Len(img.data[r]) |->
                 [k \in 1..3 |-> IF k = ch THEN img.data[r][c][k] ELSE 0]]]]

Absent == [format |-> "absent"]
Lookup(st, bucket, key) == IF key \in DOMAIN st[bucket] THEN st[bucket][key] ELSE Absent

\* C1: for a well-formed event the response is 200 exactly when every
\* record was processed successfully (fetched and all three images stored),
\* and 500 otherwise.
C1_StatusIffAllSucceeded ==
    (Returned /\ WellFormedEvent) =>
        /\ response.statusCode \in {200, 500}
        /\ response.statusCode = 200
              <=> \A i \in 1..Len(event.Records) : RecordSucceeded(i)

C1_Witness ==
    /\ Returned /\ WellFormedEvent
    /\ Len(event.Records) = 2
    /\ RecordSucceeded(1) /\ ~RecordSucceeded(2)
    /\ response.statusCode = 500

\* C2: the body of a 200 response names only object keys of records of the
\* invocation's own event: it is the prefix followed by a ", "-separated
\* list of keys each of which belongs to a record of this event.
C2_BodyNamesOnlyOwnKeys ==
    (Returned /\ response.statusCode = 200 /\ WellFormedEvent) =>
        LET own == {KeyOfRecord(i) : i \in 1..Len(event.Records)}
        IN \E listed \in SeqsUpTo(own, MaxObjectKeys) :
              response.body = Listed(listed)

\* C3: on full success the body of the 200 response lists the decoded key
\* (not a destination key) of every record of the event, in the order of
\* the records: the list in the body ends with exactly these keys.
C3_BodyListsEventKeysInOrder ==
    (Returned /\ response.statusCode = 200 /\ WellFormedEvent) =>
        LET n == Len(event.Records)
            own == [i \in 1..n |-> KeyOfRecord(i)]
            earlier == SubSeq(object_keys, 1, Len(object_keys) - n)
        IN /\ Len(object_keys) >= n
           /\ response.body = Listed(earlier \o own)

C3_Witness ==
    /\ Returned /\ response.statusCode = 200
    /\ HasRecords /\ Len(event.Records) = 2
    /\ event.Records[1].s3.object.key = Str("a+b")
    /\ event.Records[2].s3.object.key = Str("p+q")
    /\ response.body = OkPrefix \o Str("a b, p q")

\* The calls of a successfully processed record i: one fetch of its
\* decoded key k from its bucket, then three stores in the destination
\* bucket at "red/k", "green/k" and "blue/k", holding the JPEG encoding of
\* the red-only, green-only and blue-only image of the decoded source.
FourCalls(i) ==
    LET ops == OpsOf(i)
        k == KeyOfRecord(i)
        img == DecodeRGB(ops[1].body)
    IN /\ Len(ops) = 4
       /\ ops[1].op = "get_object"
       /\ ops[1].bucket = BucketOfRecord(i)
       /\ ops[1].key = k
       /\ \A c \in 1..3 :
             ops[c + 1] =
                 [rec |-> i, op |-> "put_object", ok |-> TRUE,
                  bucket |-> DESTINATION_BUCKET,
                  key |-> Colors[c] \o Str("/") \o k,
                  body |-> SaveJPEG(ChannelOnly(img, c))]

\* C4 as stated: a successfully processed record made exactly these four
\* calls, and none of its three stores is in the record's source bucket.
C4_StoresNeverInSourceBucket ==
    HasRecords =>
        \A i \in 1..idx :
            (WellFormed(i) /\ RecordSucceeded(i)) =>
                /\ FourCalls(i)
                /\ \A c \in 1..3 : OpsOf(i)[c + 1].bucket # BucketOfRecord(i)

\* C4 as amended: a successfully processed record made exactly these four
\* calls; its three stores are in the destination bucket whatever bucket
\* the record names, so they are in the record's source bucket exactly when
\* that bucket is the destination bucket.
C4_ThreeStoresAtColorKeys ==
    HasRecords =>
        \A i \in 1..idx :
            (WellFormed(i) /\ RecordSucceeded(i)) =>
                /\ FourCalls(i)
                /\ \A c \in 1..3 :
                      (OpsOf(i)[c + 1].bucket = BucketOfRecord(i))
                          <=> (BucketOfRecord(i) = DESTINATION_BUCKET)

C4_Witness ==
    /\ Returned /\ HasRecords /\ Len(event.Records) = 2
    /\ event.Records[1] = S3Record(SOURCE_BUCKET, Str("a+b"))
    /\ event.Records[2] = S3Record(DESTINATION_BUCKET, Str("p+q"))
    /\ RecordSucceeded(1) /\ RecordSucceeded(2)
    /\ {Str("red/a b"), Str("green/a b"), Str("blue/a b"),
        Str("red/p q"), Str("green/p q"), Str("blue/p q"), Str("p q")}
           = DOMAIN storage[DESTINATION_BUCKET]
    /\ DOMAIN storage[SOURCE_BUCKET] = DOMAIN InitialStorage[SOURCE_BUCKET]

\* The steps inside the try block of process_record.
FailedInTry == fail.step \in {"get_object", "open", "split", "encode", "put_object"}

\* C5: when a record fails at fetch, decode, split, encode or store, the
\* body of the 500 response contains the record's object key.
C5_BodyContainsObjectKey ==
    (Returned /\ response.statusCode = 500 /\ FailedInTry) =>
        Contains(response.body, KeyOfRecord(fail.rec))

\* C6: nothing is undone: in every state, and so when the invocation has
\* returned 500, every object the invocation stored is in the destination
\* bucket with the bytes of the last store at its key, and every object
\* present when the invocation started is still present.
C6_StoredObjectsSurvive ==
    /\ \A j \in 1..Len(oplog) :
          (oplog[j].op = "put_object" /\ oplog[j].ok) =>
              LET same == {m \in j..Len(oplog) :
                              /\ oplog[m].op = "put_object" /\ oplog[m].ok
                              /\ oplog[m].bucket = oplog[j].bucket
                              /\ oplog[m].key = oplog[j].key}
                  last == CHOOSE m \in same : \A m2 \in same : m2 <= m
              IN Lookup(storage, oplog[j].bucket, oplog[j].key) = oplog[last].body
    /\ \A b \in Buckets : DOMAIN before[b] \subseteq DOMAIN storage[b]

C6_Witness ==
    /\ Returned /\ response.statusCode = 500
    /\ fail.rec = 2 /\ fail.step = "put_object"
    /\ RecordSucceeded(1)
    /\ Len(OkPuts(2)) = 2

\* The calls one record makes, in order.
CallPattern == <<"get_object", "put_object", "put_object", "put_object">>

\* C7: records are handled in order, one completing before the next
\* begins; a failed call is never followed by another call (no retry, no
\* later record), and the 500 body carries the message of that failure.
C7_SequentialFailFast ==
    /\ \A j \in 1..Len(oplog) : \A m \in j..Len(oplog) : oplog[j].rec <= oplog[m].rec
    /\ \A j \in 1..(Len(oplog) - 1) : oplog[j].ok
    /\ HasRecords =>
          \A i \in 1..Len(event.Records) :
              /\ Len(OpsOf(i)) <= Len(CallPattern)
              /\ \A j \in 1..Len(OpsOf(i)) : OpsOf(i)[j].op = CallPattern[j]
              /\ Cardinality({OpsOf(i)[j].key : j \in 2..Len(OpsOf(i))})
                     = Len(OpsOf(i)) - (IF Len(OpsOf(i)) > 0 THEN 1 ELSE 0)
              /\ (i > 1 /\ Len(OpsOf(i)) > 0) => RecordSucceeded(i - 1)
              /\ (i > idx) => Len(OpsOf(i)) = 0
    /\ (Returned /\ response.statusCode = 500) =>
          /\ idx = fail.rec
          /\ \A j \in 1..Len(oplog) : oplog[j].rec <= fail.rec
          /\ Contains(response.body, fail.error.msg)

C7_Witness ==
    /\ Returned /\ response.statusCode = 500
    /\ WellFormedEvent /\ Len(event.Records) = 2
    /\ fail.rec = 1 /\ fail.step = "open"
    /\ Len(oplog) = 1

\* The same event is handled for the second time in a row and its source
\* objects are the same at both starts.
SameEventAgain ==
    /\ Returned /\ invocations >= 2
    /\ prev.event = event
    /\ WellFormedEvent
    /\ \A i \in 1..Len(event.Records) :
          Lookup(prev.before, BucketOfRecord(i), KeyOfRecord(i))
              = Lookup(before, BucketOfRecord(i), KeyOfRecord(i))

\* The keys a run has stored at.
StoredKeys(log) ==
    {log[j].key : j \in {m \in 1..Len(log) : log[m].op = "put_object" /\ log[m].ok}}

\* The channel image of the source object of a record of the event that
\* belongs at destination key k, JPEG-encoded.
OutputFor(k) ==
    LET at == {ic \in (1..Len(event.Records)) \X (1..3) :
                  Colors[ic[2]] \o Str("/") \o KeyOfRecord(ic[1]) = k}
        ic == CHOOSE x \in at : TRUE
        source == Lookup(before, BucketOfRecord(ic[1]), KeyOfRecord(ic[1]))
    IN SaveJPEG(ChannelOnly(DecodeRGB(source), ic[2]))

C10_NoExceptionEscapes ==
    /\ pc # "escaped"
    /\ Returned =>
          /\ response.statusCode \in {200, 500}
          /\ response.body \in Seq(0..1114111)
          /\ ~WellFormedEvent => response.statusCode = 500
          /\ HasRecords =>
                \A i \in 1..Len(event.Records) : ~WellFormed(i) => Len(OpsOf(i)) = 0

C10_Witness ==
    /\ Returned /\ response.statusCode = 500
    /\ HasRecords /\ Len(event.Records) = 2
    /\ RecordSucceeded(1)
    /\ ~WellFormed(2)
    /\ fail.step = "record" /\ fail.rec = 2

\* C8: when create_channel_images returns, each of the three images has the
\* shape of the input; at every pixel the red image equals the input on
\* channel 0 and is 0 on channels 1 and 2, the green image equals it on
\* channel 1 only, the blue image on channel 2 only (so the three add up
\* to the input); the input raster is as it was given; and the input and
\* the three outputs are four different buffers.
SplitReturned == frame.line = 0 /\ frame.blue_img # 0

C8_SplitKeepsOneChannel ==
    /\ frame.original_image # 0 => frame.heap[frame.original_image] = split_input
    /\ SplitReturned =>
          LET out == <<frame.heap[frame.red_img], frame.heap[frame.green_img],
                       frame.heap[frame.blue_img]>>
          IN /\ \A ch \in 1..3 :
                   /\ Len(out[ch]) = Len(split_input)
                   /\ \A r \in 1..Len(split_input) :
                         /\ Len(out[ch][r]) = Len(split_input[r])
                         /\ \A c \in 1..Len(split_input[r]) :
                               /\ Len(out[ch][r][c]) = 3
                               /\ \A k \in 1..3 :
                                     out[ch][r][c][k] =
                                         IF k = ch THEN split_input[r][c][k] ELSE 0
             /\ \A r \in 1..Len(split_input) : \A c \in 1..Len(split_input[r]) :
                   \A k \in 1..3 :
                       out[1][r][c][k] + out[2][r][c][k] + out[3][r][c][k]
                           = split_input[r][c][k]
             /\ Cardinality({frame.original_image, frame.red_img, frame.green_img,
                             frame.blue_img}) = 4

C8_Witness ==
    /\ SplitReturned
    /\ split_input = << << <<255, 255, 255>>, <<255, 0, 255>> >>,
                        << <<0, 255, 0>>, <<255, 255, 0>> >> >>
    /\ frame.heap[frame.green_img] = << << <<0, 255, 0>>, <<0, 0, 0>> >>,
                                        << <<0, 255, 0>>, <<0, 255, 0>> >> >>

====
